---- MODULE Spec2Model ----
(***************************************************************************)
(* A model of the generator (src/src/generator.ts): the optimizer          *)
(* (optimize), the renderer (generateType and the functions it calls) and  *)
(* the top-level generate with its three declaration walks.                *)
(*                                                                         *)
(* AST objects live in a heap, a sequence of node records; the index of a  *)
(* record is the identity of the object.  Interface and enum params        *)
(* ({keyName, ast, isRequired, ...}) are objects too (optimize mutates     *)
(* them in place and the interface merge shares them), so they are heap    *)
(* records of type "PARAM" whose params field is <<ast>>.  Rendered text   *)
(* is a TLA+ string, built with \o as the code builds it with +.           *)
(***************************************************************************)
EXTENDS Integers, Sequences, FiniteSets, TLC

VARIABLES
    heap,       \* the AST objects; heap[i] is the payload of object i
    root,       \* the AST handed to optimize / generateType / generate
    memo,       \* the cache of generateType = memoize(generateTypeUnmemoized)
    options,    \* the Options of the next call
    runs,       \* calls made so far
    last,       \* what the last call did and returned
    dereferencedPaths,  \* dereference's WeakMap: schema object -> $ref
    events,     \* the onDereference calls the parser has made, in order
    returned    \* dereference has returned

genVars == <<heap, root, memo, options, runs, last>>

derefVars == <<dereferencedPaths, events, returned>>

vars == <<heap, root, memo, options, runs, last, dereferencedPaths, events,
          returned>>

----------------------------------------------------------------------------
(* Bounds *)

\* the call-stack depth (nested generateType calls) the engine allows
\* before it throws RangeError
MaxStack ==
    4

\* calls made on one heap
MaxRuns ==
    2

----------------------------------------------------------------------------
(* AST objects *)

\* an absent standaloneName / comment / keyName
NoName ==
    ""

\* an absent object reference (spreadParam undefined)
NoNode ==
    0

\* the shared constant objects of types/AST
T_STRING ==
    1

T_ANY ==
    2

T_UNKNOWN ==
    3

INDEX_KEY ==
    "[k: string]"

Node(t) ==
    [type |-> t, standaloneName |-> NoName, comment |-> NoName,
     deprecated |-> FALSE, keyName |-> NoName, value |-> NoName,
     params |-> <<>>, superTypes |-> <<>>,
     minItems |-> 0, maxItems |-> 0, spreadParam |-> NoNode,
     isRequired |-> FALSE, isPatternProperty |-> FALSE,
     isUnreachableDefinition |-> FALSE]

\* the heap that holds only T_STRING, T_ANY and T_UNKNOWN
ConstHeap ==
    <<Node("STRING"), Node("ANY"), Node("UNKNOWN")>>

\* T_INTERFACE(params, comment) of types/AST: a fresh anonymous interface
T_INTERFACE(params, comment) ==
    [Node("INTERFACE") EXCEPT !.params = params, !.comment = comment]

\* {...T_STRING, comment}
StringWithComment(comment) ==
    [Node("STRING") EXCEPT !.comment = comment]

hasStandaloneName(ast) ==
    ast.standaloneName # NoName

hasComment(ast) ==
    ast.comment # NoName

\* the names of the model are identifiers toSafeString leaves as they are
toSafeString(s) ==
    s

\* {...ast, standaloneName: undefined}; an ENUM is returned as it is
omitStandaloneName(ast) ==
    IF ast.type = "ENUM" THEN ast ELSE [ast EXCEPT !.standaloneName = NoName]

\* omit(ast, 'standaloneName')
omit(ast) ==
    [ast EXCEPT !.standaloneName = NoName]

----------------------------------------------------------------------------
(* Text *)

endsWith(s, c) ==
    Len(s) > 0 /\ SubSeq(s, Len(s), Len(s)) = c

startsWith(s, c) ==
    Len(s) > 0 /\ SubSeq(s, 1, 1) = c

RECURSIVE join(_, _)
\* Array.prototype.join
join(ss, sep) ==
    IF Len(ss) = 0 THEN ""
    ELSE IF Len(ss) = 1 THEN ss[1]
    ELSE ss[1] \o sep \o join(Tail(ss), sep)

\* JSON.stringify of a string
JSONstringify(s) ==
    "\"" \o s \o "\""

\* the key names that match /^[A-Za-z_$][\w$]*$/
IdentifierKeys ==
    {"a", "b", "c"}

escapeKeyName(keyName) ==
    IF keyName \in IdentifierKeys THEN keyName
    ELSE IF keyName = INDEX_KEY THEN keyName
    ELSE JSONstringify(keyName)

\* seq.filter(Boolean) on strings: drops the empty ones
filterBoolean(ss) ==
    SelectSeq(ss, LAMBDA s : s # "")

generateComment(comment, deprecated) ==
    join(<<"/**">>
         \o (IF deprecated THEN <<" * @deprecated">> ELSE <<>>)
         \o <<" * " \o comment>>
         \o <<" */">>, "\n")

----------------------------------------------------------------------------
(* The state threaded through one call                                      *)
(*   heap, memo   the objects and the generateType cache                    *)
(*   err          a RangeError (call stack exhausted) is propagating        *)
(*   processed    the visited set of the running optimize / declare walk    *)
(*   log          what optimize decided at each UNION / INTERSECTION        *)
(*   decls        the declarations the walks of generate have emitted       *)

Thread(h, m) ==
    [heap |-> h, memo |-> m, err |-> FALSE, processed |-> {}, log |-> <<>>,
     decls |-> <<>>]

Ret(st, v) ==
    [st |-> st, v |-> v]

Throw(st) ==
    [st |-> [st EXCEPT !.err = TRUE], v |-> ""]

\* options.unknownAny ? T_UNKNOWN : T_ANY
unknownOrAny(o) ==
    IF o.unknownAny THEN T_UNKNOWN ELSE T_ANY

----------------------------------------------------------------------------
(* generateType and what it calls *)

RECURSIVE generateType(_, _, _, _)
RECURSIVE generateTypes(_, _, _, _)

isAnnotatedString(key) ==
    key \in {"STRING", "ENUM", "LITERAL", "NUMBER", "UNKNOWN"}

getMapEntryPrefix(mapEntryKind) ==
    CASE mapEntryKind = "BASIC" -> "getMapEntry"
      [] mapEntryKind = "ARRAY" -> "getMapEntrySequence"
      [] mapEntryKind = "MAP" -> "getMapEntryMap"
      [] OTHER -> ""

\* 'get ' + key + '() {\n return <fn>(this.node, '<key>', this.uri, <ctor>)\n}'
accessor(keyName, fn, ctor) ==
    "get " \o escapeKeyName(keyName) \o "() {\n return " \o fn
    \o "(this.node, '" \o escapeKeyName(keyName) \o "', this.uri, " \o ctor
    \o ")\n}"

\* key + (isRequired ? '' : '?') + ': ' + type
plainField(keyName, isRequired, type) ==
    escapeKeyName(keyName) \o (IF isRequired THEN "" ELSE "?") \o ": " \o type

\* comment ? generateComment(comment, deprecated) + '\n' : ''
commentString(comment, deprecated) ==
    IF comment # NoName THEN generateComment(comment, deprecated) \o "\n"
    ELSE ""

generateEndNodes(keyName, type, paramType, isRequired, standaloneName, comment, deprecated, mapEntryKind) ==
    commentString(comment, deprecated)
    \o (IF standaloneName # NoName
        THEN accessor(keyName, getMapEntryPrefix(mapEntryKind), standaloneName)
        ELSE IF isAnnotatedString(paramType)
        THEN accessor(keyName, getMapEntryPrefix(mapEntryKind),
                      "AnnotatedString")
        ELSE IF paramType = "BOOLEAN"
        THEN accessor(keyName, getMapEntryPrefix(mapEntryKind),
                      "AnnotatedBoolean")
        ELSE plainField(keyName, isRequired, type))

\* an INTERFACE with no standalone name and exactly one param, keyed
\* '[k: string]'
isSingleIndexSignature(h, ast) ==
    /\ ast.type = "INTERFACE"
    /\ ast.standaloneName = NoName
    /\ Len(ast.params) = 1
    /\ escapeKeyName(h[ast.params[1]].keyName) = INDEX_KEY

\* a || b on standalone names
orName(a, b) ==
    IF a # NoName THEN a ELSE b

\* handleUnionRecursively, with p0 = ast.params[0]
handleUnionParam(h, ast, p0, keyName, type, isRequired) ==
    IF p0.type = "ARRAY"
    THEN generateEndNodes(keyName, type, h[p0.params[1]].type, isRequired,
                          orName(p0.standaloneName,
                                 h[p0.params[1]].standaloneName),
                          ast.comment, ast.deprecated, "ARRAY")
    ELSE IF isSingleIndexSignature(h, p0)
    THEN generateEndNodes(keyName, type, h[h[p0.params[1]].params[1]].type,
                          isRequired,
                          h[h[p0.params[1]].params[1]].standaloneName,
                          ast.comment, ast.deprecated, "MAP")
    ELSE generateEndNodes(keyName, type, p0.type, isRequired,
                          orName(ast.standaloneName, p0.standaloneName),
                          ast.comment, ast.deprecated, "BASIC")

handleUnionRecursively(h, ast, keyName, type, isRequired) ==
    handleUnionParam(h, ast, h[ast.params[1]], keyName, type, isRequired)

\* the comment block the accessors of generateInterface start with
memberComment(ast) ==
    IF hasComment(ast)
    THEN generateComment(ast.comment, ast.deprecated) \o "\n" ELSE ""

\* the comment block of a plain field of generateInterface
fieldComment(ast) ==
    IF hasComment(ast) /\ ast.standaloneName = NoName
    THEN generateComment(ast.comment, ast.deprecated) \o "\n" ELSE ""

\* The text generateInterface's second map gives for one param; notIndex is
\* escapeKeyName(keyName) !== '[k: string]'.  "" is the undefined the
\* callback returns when no branch returns (join prints undefined as the
\* empty string).
interfaceMember(h, isRequired, keyName, ast, type, hasKeys, notIndex) ==
    IF isAnnotatedString(ast.type) /\ notIndex
    THEN memberComment(ast)
         \o accessor(keyName, "getMapEntry", "AnnotatedString")
    ELSE IF ast.type = "BOOLEAN" /\ notIndex
    THEN memberComment(ast)
         \o accessor(keyName, "getMapEntry", "AnnotatedBoolean")
    ELSE IF ast.type = "INTERFACE" /\ ast.standaloneName # NoName /\ notIndex
    THEN memberComment(ast)
         \o accessor(keyName, "getMapEntry", ast.standaloneName)
    ELSE IF ast.type = "ARRAY" /\ notIndex
    THEN generateEndNodes(keyName, type, h[ast.params[1]].type, isRequired,
                          h[ast.params[1]].standaloneName, ast.comment,
                          ast.deprecated, "ARRAY")
    ELSE IF ast.type \in {"UNION", "INTERSECTION"} /\ notIndex
            /\ Len(ast.params) = 1
    THEN handleUnionRecursively(h, ast, keyName, type, isRequired)
    ELSE IF isSingleIndexSignature(h, ast)
    THEN generateEndNodes(keyName, type, h[h[ast.params[1]].params[1]].type,
                          isRequired,
                          h[h[ast.params[1]].params[1]].standaloneName,
                          ast.comment, ast.deprecated, "MAP")
    ELSE IF hasKeys
    THEN IF notIndex
         THEN fieldComment(ast) \o plainField(keyName, isRequired, type)
         ELSE ""
    ELSE fieldComment(ast) \o plainField(keyName, isRequired, type)

\* ast.params.filter(_ => !_.isPatternProperty && !_.isUnreachableDefinition)
renderedParams(h, ast) ==
    SelectSeq(ast.params,
              LAMBDA p : ~h[p].isPatternProperty
                         /\ ~h[p].isUnreachableDefinition)

\* the escaped key names of the params ps
keysOf(h, ps) ==
    [i \in 1..Len(ps) |-> escapeKeyName(h[ps[i]].keyName)]

\* allKeys of generateInterface
allKeys(h, ast) ==
    keysOf(h, SelectSeq(renderedParams(h, ast),
                        LAMBDA p : escapeKeyName(h[p].keyName) # INDEX_KEY))

\* the trailing get __keys() accessor
keysAccessor(keys) ==
    IF Len(keys) > 0
    THEN "\n get __keys() {\n return ["
         \o join([i \in 1..Len(keys) |-> "'" \o keys[i] \o "'"], ",")
         \o "] }\n"
    ELSE ""

\* the asts of the params ps
astsOf(h, ps) ==
    [i \in 1..Len(ps) |-> h[ps[i]].params[1]]

\* the texts of the params ps, whose asts are rendered as types
memberTexts(h, ps, types, hasKeys) ==
    [i \in 1..Len(ps) |->
        interfaceMember(h, h[ps[i]].isRequired, h[ps[i]].keyName,
                        h[h[ps[i]].params[1]], types[i], hasKeys,
                        escapeKeyName(h[ps[i]].keyName) # INDEX_KEY)]

\* the block generateInterface returns, given the rendered types r
interfaceText(r, ast) ==
    IF r.st.err THEN Ret(r.st, "")
    ELSE Ret(r.st,
             "{" \o "\n"
             \o join(memberTexts(r.st.heap, renderedParams(r.st.heap, ast),
                                 r.v, Len(allKeys(r.st.heap, ast)) > 0), "\n")
             \o keysAccessor(allKeys(r.st.heap, ast))
             \o "\n}")

generateInterface(st, ast, o, d) ==
    interfaceText(generateTypes(st,
                                astsOf(st.heap, renderedParams(st.heap, ast)),
                                o, d),
                  ast)

\* members.length === 1 ? members[0] : '(' + members.join(' | ') + ')'
setText(r, separator) ==
    IF r.st.err THEN Ret(r.st, "")
    ELSE IF Len(r.v) = 1 THEN Ret(r.st, r.v[1])
    ELSE Ret(r.st, "(" \o join(r.v, " " \o separator \o " ") \o ")")

generateSetOperation(st, ast, o, d) ==
    setText(generateTypes(st, ast.params, o, d),
            IF ast.type = "UNION" THEN "|" ELSE "&")

\* type.endsWith('"') ? '(' + type + ')[]' : type + '[]'
arrayText(r) ==
    IF r.st.err THEN r
    ELSE IF endsWith(r.v, "\"") THEN Ret(r.st, "(" \o r.v \o ")[]")
    ELSE Ret(r.st, r.v \o "[]")

\* const maxItems = ast.maxItems || -1
tupleMaxItems(ast) ==
    IF ast.maxItems = 0 THEN -1 ELSE ast.maxItems

\* the spread param after the under-specified case: no spread param, fewer
\* params than minItems and no maxItems gives an any/unknown spread
tupleSpreadParam(ast, o) ==
    IF /\ ast.minItems > 0
       /\ ast.minItems > Len(ast.params)
       /\ ast.spreadParam = NoNode
       /\ tupleMaxItems(ast) < 0
    THEN unknownOrAny(o)
    ELSE ast.spreadParam

\* a padding that stops one param short of maxItems
paddedLengthShort(ast) ==
    IF tupleMaxItems(ast) > Len(ast.params) /\ ast.spreadParam = NoNode
    THEN tupleMaxItems(ast) - 1
    ELSE Len(ast.params)

\* how many params the tuple has after padding
paddedLength(ast) ==
    IF tupleMaxItems(ast) > Len(ast.params) /\ ast.spreadParam = NoNode
    THEN tupleMaxItems(ast)
    ELSE Len(ast.params)

\* astParams: the params, filled up to maxItems with any/unknown
tupleParams(ast, o) ==
    [i \in 1..paddedLength(ast) |->
        IF i <= Len(ast.params) THEN ast.params[i] ELSE unknownOrAny(o)]

paramsToString(params) ==
    "[" \o join(params, ", ") \o "]"

\* addSpreadParam; spread is the text '...(T)[]', or "" without spread param
addSpreadParam(params, spread) ==
    IF spread # "" THEN Append(params, spread) ELSE params

\* a union of shapes in which every shape carries the spread
typesToUnionAllSpread(paramsList, minItems, spread) ==
    [k \in 1..(Len(paramsList) - minItems + 1) |->
        paramsToString(addSpreadParam(SubSeq(paramsList, 1, minItems + k - 1),
                                      spread))]

\* typesToUnion: the shape of the first minItems params, then one shape per
\* further param; only the last one carries the spread
typesToUnion(paramsList, minItems, spread) ==
    [k \in 1..(Len(paramsList) - minItems + 1) |->
        IF k > 1 /\ minItems + k - 1 = Len(paramsList)
        THEN paramsToString(addSpreadParam(paramsList, spread))
        ELSE paramsToString(SubSeq(paramsList, 1, minItems + k - 1))]

\* '...(' + generateType(spreadParam, options) + ')[]'
spreadText(s) ==
    IF s.st.err THEN s ELSE Ret(s.st, "...(" \o s.v \o ")[]")

\* the text addSpreadParam pushes, "" when there is no spread param
generateSpread(st, spreadParam, o, d) ==
    IF spreadParam = NoNode THEN Ret(st, "")
    ELSE spreadText(generateType(st, spreadParam, o, d))

\* lines 386-426: a union of tuple shapes when there are more params than
\* minItems, one shape otherwise
tupleText(paramsList, s, minItems) ==
    IF s.st.err THEN Ret(s.st, "")
    ELSE IF Len(paramsList) > minItems
    THEN Ret(s.st, join(typesToUnion(paramsList, minItems, s.v), "|"))
    ELSE Ret(s.st, paramsToString(addSpreadParam(paramsList, s.v)))

\* the tuple's text once its params are rendered as r
tupleOfParams(r, ast, o, d) ==
    tupleText(r.v, generateSpread(r.st, tupleSpreadParam(ast, o), o, d),
              ast.minItems)

generateTuple(st, ast, o, d) ==
    tupleOfParams(generateTypes(st, tupleParams(ast, o), o, d), ast, o, d)

generateRawType(st, ast, o, d) ==
    IF hasStandaloneName(ast) THEN Ret(st, toSafeString(ast.standaloneName))
    ELSE CASE ast.type = "ANY" -> Ret(st, "any")
           [] ast.type = "ARRAY" ->
                arrayText(generateType(st, ast.params[1], o, d))
           [] ast.type = "BOOLEAN" -> Ret(st, "boolean")
           [] ast.type = "INTERFACE" -> generateInterface(st, ast, o, d)
           [] ast.type = "INTERSECTION" -> generateSetOperation(st, ast, o, d)
           [] ast.type = "LITERAL" -> Ret(st, JSONstringify(ast.value))
           [] ast.type = "NEVER" -> Ret(st, "never")
           [] ast.type = "NUMBER" -> Ret(st, "number")
           [] ast.type = "NULL" -> Ret(st, "null")
           [] ast.type = "OBJECT" -> Ret(st, "object")
           [] ast.type = "REFERENCE" -> Ret(st, ast.value)
           [] ast.type = "STRING" -> Ret(st, "string")
           [] ast.type = "TUPLE" -> generateTuple(st, ast, o, d)
           [] ast.type = "UNION" -> generateSetOperation(st, ast, o, d)
           [] ast.type = "UNKNOWN" -> Ret(st, "unknown")
           [] ast.type = "CUSTOM_TYPE" -> Ret(st, ast.value)
           [] OTHER -> Ret(st, "undefined")

\* strictIndexSignatures && ast.keyName === '[k: string]'
\*     ? `${type} | undefined` : type
indexSignatureType(r, ast, o) ==
    IF r.st.err THEN r
    ELSE IF o.strictIndexSignatures /\ ast.keyName = INDEX_KEY
    THEN Ret(r.st, r.v \o " | undefined")
    ELSE r

generateTypeUnmemoized(st, ast, o, d) ==
    indexSignatureType(generateRawType(st, ast, o, d), ast, o)

\* memoize: the result r is stored under the key id
cached(r, id) ==
    IF r.st.err THEN r
    ELSE Ret([r.st EXCEPT !.memo = @ @@ (id :> r.v)], r.v)

\* generateTypeUnmemoized through the memoize wrapper: a cached key returns
\* the cached text; otherwise the text is computed and cached.  A call
\* deeper than MaxStack throws.
generateType(st, id, o, d) ==
    IF st.err THEN Ret(st, "")
    ELSE IF id \in DOMAIN st.memo THEN Ret(st, st.memo[id])
    ELSE IF d >= MaxStack THEN Throw(st)
    ELSE cached(generateTypeUnmemoized(st, st.heap[id], o, d + 1), id)

\* generateType on an object made for the call ({...ast} or omit(ast)):
\* the key is new, so the cache misses, and the entry is never read again.
generateTypeOfCopy(st, ast, o, d) ==
    IF st.err THEN Ret(st, "")
    ELSE IF d >= MaxStack THEN Throw(st)
    ELSE generateTypeUnmemoized(st, ast, o, d + 1)

\* the value v, then the values of rest
consResult(v, rest) ==
    Ret(rest.st, <<v>> \o rest.v)

\* the text of the first id as r, then the texts of the other ids
generateRest(r, ids, o, d) ==
    consResult(r.v, generateTypes(r.st, ids, o, d))

\* ids.map(_ => generateType(_, options))
generateTypes(st, ids, o, d) ==
    IF Len(ids) = 0 \/ st.err THEN Ret(st, <<>>)
    ELSE generateRest(generateType(st, ids[1], o, d), Tail(ids), o, d)

----------------------------------------------------------------------------
(* optimize *)

\* a new object
alloc(st, node) ==
    Ret([st EXCEPT !.heap = Append(@, node)], Len(st.heap) + 1)

\* Object.assign(ast, {params})
assignParams(st, id, params) ==
    [st EXCEPT !.heap[id].params = params]

\* T_STRING, or {...T_STRING, comment} when there is a comment
stringFor(st, comment) ==
    IF comment # NoName THEN alloc(st, StringWithComment(comment))
    ELSE Ret(st, T_STRING)

\* ast.standaloneName && ast.type === 'STRING'
isNamedString(ast) ==
    ast.standaloneName # NoName /\ ast.type = "STRING"

\* params.filter(_ => _.type !== 'NULL')
dropNull(h, ps) ==
    SelectSeq(ps, LAMBDA p : h[p].type # "NULL")

\* the types of the params ps
kindsOf(h, ps) ==
    [i \in 1..Len(ps) |-> h[ps[i]].type]

\* the tests on the param types with UNKNOWN tested before ANY
setOutcomeUnknownFirst(kinds) ==
    IF \E i \in 1..Len(kinds) : kinds[i] = "UNKNOWN" THEN "UNKNOWN"
    ELSE IF \E i \in 1..Len(kinds) : kinds[i] = "ANY" THEN "ANY"
    ELSE IF \A i \in 1..Len(kinds) : kinds[i] \in {"LITERAL", "STRING", "NULL"}
    THEN "STRING"
    ELSE "KEEP"

\* What the tests on the param types decide, in the code's order:
\* some ANY, then some UNKNOWN, then every LITERAL / STRING / NULL.
setOutcome(kinds) ==
    IF \E i \in 1..Len(kinds) : kinds[i] = "ANY" THEN "ANY"
    ELSE IF \E i \in 1..Len(kinds) : kinds[i] = "UNKNOWN" THEN "UNKNOWN"
    ELSE IF \A i \in 1..Len(kinds) : kinds[i] \in {"LITERAL", "STRING", "NULL"}
    THEN "STRING"
    ELSE "KEEP"

\* params.filter(_ => _.standaloneName !== undefined)
namedOnly(h, ps) ==
    SelectSeq(ps, LAMBDA p : h[p].standaloneName # NoName)

\* params.some(_ => _.standaloneName !== undefined)
someNamed(h, ps) ==
    \E i \in 1..Len(ps) : h[ps[i]].standaloneName # NoName

RECURSIVE uniqIndices(_, _)
\* the indices uniqBy keeps: the first of each text
uniqIndices(texts, i) ==
    IF i > Len(texts) THEN <<>>
    ELSE IF \E j \in 1..(i - 1) : texts[j] = texts[i]
    THEN uniqIndices(texts, i + 1)
    ELSE <<i>> \o uniqIndices(texts, i + 1)

\* the params at the indices keep
pick(ps, keep) ==
    [k \in 1..Len(keep) |-> ps[keep[k]]]

\* uniqBy(params, _ => generateType(_, options)), given the texts
uniqBy(ps, texts) ==
    pick(ps, uniqIndices(texts, 1))

RECURSIVE lastByKey(_, _, _)
\* a merge in which a later param object replaces an earlier one of its key
lastByKey(h, ms, acc) ==
    IF Len(ms) = 0 THEN acc
    ELSE lastByKey(h, Tail(ms),
                   Append(SelectSeq(acc, LAMBDA a :
                                        h[a].keyName # h[ms[1]].keyName),
                          ms[1]))

RECURSIVE firstByKey(_, _, _)
\* acc of the interface merge: each param object whose keyName no earlier
\* one has
firstByKey(h, ms, acc) ==
    IF Len(ms) = 0 THEN acc
    ELSE IF \E i \in 1..Len(acc) : h[acc[i]].keyName = h[ms[1]].keyName
    THEN firstByKey(h, Tail(ms), acc)
    ELSE firstByKey(h, Tail(ms), Append(acc, ms[1]))

RECURSIVE concatParams(_, _)
\* the params of the interfaces ps, one interface after the other
concatParams(h, ps) ==
    IF Len(ps) = 0 THEN <<>>
    ELSE h[ps[1]].params \o concatParams(h, Tail(ps))

mergedParams(h, ps) ==
    firstByKey(h, concatParams(h, ps), <<>>)

RECURSIVE optimize(_, _, _)
RECURSIVE optimizeAll(_, _, _)
RECURSIVE optimizeMembers(_, _, _)
RECURSIVE flattenMembers(_, _)
RECURSIVE sameAsFirst(_, _, _, _)

\* generateType(omitStandaloneName(_), options): a copy, except for an ENUM
generateTypeOmitted(st, p, o) ==
    IF st.heap[p].type = "ENUM" THEN generateType(st, p, o, 0)
    ELSE generateTypeOfCopy(st, omitStandaloneName(st.heap[p]), o, 0)

\* return a === b, and every goes on to the next param when it holds
sameTexts(a, b, ps, i, o) ==
    IF b.st.err THEN Ret(b.st, FALSE)
    ELSE IF a # b.v THEN Ret(b.st, FALSE)
    ELSE sameAsFirst(b.st, ps, i + 1, o)

\* const b = generateType(omitStandaloneName(params[0]), options), after a
sameAsText(a, ps, i, o) ==
    sameTexts(a.v, generateTypeOmitted(a.st, ps[1], o), ps, i, o)

\* params.every(_ => generateType(omit(_)) === generateType(omit(params[0])))
\* from index i on; every stops at the first param that differs
sameAsFirst(st, ps, i, o) ==
    IF i > Len(ps) \/ st.err THEN Ret(st, TRUE)
    ELSE sameAsText(generateTypeOmitted(st, ps[i], o), ps, i, o)

\* the first id optimized as r, then the other ids
optimizeRest(r, ids, o) ==
    consResult(r.v, optimizeAll(r.st, ids, o))

\* ids.map(_ => optimize(_, options, processed))
optimizeAll(st, ids, o) ==
    IF Len(ids) = 0 \/ st.err THEN Ret(st, <<>>)
    ELSE optimizeRest(optimize(st, ids[1], o), Tail(ids), o)

\* Object.assign(_, {ast: r}) on the first member, then the other members
assignMember(r, ms, o) ==
    IF r.st.err THEN r.st
    ELSE optimizeMembers(assignParams(r.st, ms[1], <<r.v>>), Tail(ms), o)

\* params.map(_ => Object.assign(_, {ast: optimize(_.ast, ...)}))
optimizeMembers(st, ms, o) ==
    IF Len(ms) = 0 \/ st.err THEN st
    ELSE assignMember(optimize(st, st.heap[ms[1]].params[1], o), ms, o)

\* Object.assign(_, {ast: s}) on the first member, then the other members
flattenMember(s, ms) ==
    flattenMembers(assignParams(s.st, ms[1], <<s.v>>), Tail(ms))

\* params.map(_ => named STRING ? Object.assign(_, {ast: T_STRING...}) : _)
flattenMembers(st, ms) ==
    IF Len(ms) = 0 THEN st
    ELSE IF isNamedString(st.heap[st.heap[ms[1]].params[1]])
    THEN flattenMember(stringFor(st, st.heap[st.heap[ms[1]].params[1]].comment),
                       ms)
    ELSE flattenMembers(st, Tail(ms))

\* one entry of the log: the set node, the param types after the NULL
\* params were dropped, what was returned, and the params and their texts
\* before and after the two dedup steps
LogEntry(id, kinds, out, named, texts, uniq, res) ==
    [node |-> id, kinds |-> kinds, out |-> out, named |-> named,
     texts |-> texts, uniq |-> uniq, res |-> res]

logged(st, e) ==
    [st EXCEPT !.log = Append(@, e)]

\* return Object.assign(optimizedAST, {params: [T_INTERFACE(acc, comment)]})
assignMerged(m, id, e) ==
    Ret(logged(assignParams(m.st, id, <<m.v>>), e), id)

\* return Object.assign(optimizedAST, {params: params.map(optimize)})
assignOptimized(r, id, e) ==
    IF r.st.err THEN Ret(r.st, id)
    ELSE Ret(logged(assignParams(r.st, id, r.v), e), id)

\* lines 829-849: the interface merge, or the final map
mergeOrKeep(st, id, uniq, e, o) ==
    IF Len(uniq) > 1
       /\ \A i \in 1..Len(uniq) : st.heap[uniq[i]].type = "INTERFACE"
    THEN assignMerged(alloc(st, T_INTERFACE(mergedParams(st.heap, uniq),
                                            st.heap[id].comment)),
                      id, [e EXCEPT !.out = "MERGE"])
    ELSE assignOptimized(optimizeAll(st, uniq, o), id,
                         [e EXCEPT !.out = "KEEP"])

\* lines 822-827: optimizedAST.params = uniqBy(...), with the texts as t
dedupByText(t, id, named, kinds, o) ==
    IF t.st.err THEN Ret(t.st, id)
    ELSE mergeOrKeep(assignParams(t.st, id, uniqBy(named, t.v)), id,
                     uniqBy(named, t.v),
                     LogEntry(id, kinds, "", named, t.v, uniqBy(named, t.v),
                              id),
                     o)

\* lines 809-820: only the named params stay when every param has the text
\* of the first and some param is named
dedupByName(same, id, ps, kinds, o) ==
    IF same.st.err THEN Ret(same.st, id)
    ELSE IF same.v /\ someNamed(same.st.heap, ps)
    THEN dedupByText(generateTypes(assignParams(same.st, id,
                                                namedOnly(same.st.heap, ps)),
                                   namedOnly(same.st.heap, ps), o, 0),
                     id, namedOnly(same.st.heap, ps), kinds, o)
    ELSE dedupByText(generateTypes(same.st, ps, o, 0), id, ps, kinds, o)

\* lines 809-849: the two dedup steps, the interface merge, the final map
optimizeSetParams(st, id, ps, kinds, o) ==
    dedupByName(sameAsFirst(st, ps, 1, o), id, ps, kinds, o)

\* return {...T_STRING, comment} or T_STRING, as s
collapsed(s, id, kinds) ==
    Ret(logged(s.st, LogEntry(id, kinds, "STRING", <<>>, <<>>, <<>>, s.v)),
        s.v)

\* lines 788-807 and what follows: the set becomes any, unknown or string
\* when the types of its params say so
decideSet(st, id, ps, kinds, o) ==
    CASE setOutcome(kinds) = "ANY" ->
            Ret(logged(st, LogEntry(id, kinds, "ANY", <<>>, <<>>, <<>>, T_ANY)),
                T_ANY)
      [] setOutcome(kinds) = "UNKNOWN" ->
            Ret(logged(st, LogEntry(id, kinds, "UNKNOWN", <<>>, <<>>, <<>>,
                                    T_UNKNOWN)),
                T_UNKNOWN)
      [] setOutcome(kinds) = "STRING" ->
            collapsed(stringFor(st, st.heap[id].comment), id, kinds)
      [] OTHER -> optimizeSetParams(st, id, ps, kinds, o)

\* lines 783-786: the NULL params are dropped from the optimized params r
dropNullParams(r, id, o) ==
    IF r.st.err THEN Ret(r.st, id)
    ELSE decideSet(assignParams(r.st, id, dropNull(r.st.heap, r.v)), id,
                   dropNull(r.st.heap, r.v),
                   kindsOf(r.st.heap, dropNull(r.st.heap, r.v)), o)

\* the INTERSECTION / UNION case
optimizeSet(st, id, o) ==
    dropNullParams(optimizeAll(st, st.heap[id].params, o), id, o)

\* Object.assign(ast, {params: s})
assignOne(s, id) ==
    Ret(assignParams(s.st, id, <<s.v>>), id)

\* lines 733-749, with the optimized param as r
optimizedArray(r, id) ==
    IF r.st.err THEN Ret(r.st, id)
    ELSE IF isNamedString(r.st.heap[r.v])
    THEN assignOne(stringFor(r.st, r.st.heap[r.v].comment), id)
    ELSE assignOne(r, id)

\* lines 751-754, with the optimized params as r
optimizedTuple(r, id) ==
    IF r.st.err THEN Ret(r.st, id)
    ELSE Ret(assignParams(r.st, id, r.v), id)

\* lines 760-775, after the members' asts were optimized
optimizedInterface(st, id, ms, o) ==
    IF st.err THEN Ret(st, id)
    ELSE optimize(flattenMembers(st, ms), id, o)

\* the switch of optimize
optimizeNode(st, id, ast, o) ==
    CASE ast.type = "LITERAL" -> stringFor(st, ast.comment)
      [] ast.type = "ARRAY" ->
            optimizedArray(optimize(st, ast.params[1], o), id)
      [] ast.type = "TUPLE" ->
            optimizedTuple(optimizeAll(st, ast.params, o), id)
      [] ast.type = "INTERFACE" ->
            optimizedInterface(optimizeMembers(st, ast.params, o), id,
                               ast.params, o)
      [] ast.type \in {"INTERSECTION", "UNION"} -> optimizeSet(st, id, o)
      [] OTHER -> Ret(st, id)

optimize(st, id, o) ==
    IF st.err \/ id \in st.processed THEN Ret(st, id)
    ELSE optimizeNode([st EXCEPT !.processed = @ \cup {id}], id, st.heap[id],
                      o)

----------------------------------------------------------------------------
(* generate and its three walks *)

\* the runtime support text generate starts with (lines 20-168), cut to its
\* first and last lines; it ends with the closing brace of getMapEntryWith
prefix ==
    "import { DocumentUri } from 'vscode-languageserver';\n  }"

getSuperTypesAndParams(h, ast) ==
    astsOf(h, ast.params) \o ast.superTypes

\* one emitted declaration: the name, the object, the walk
declared(st, id, walk) ==
    [st EXCEPT !.decls = Append(@, [name |-> st.heap[id].standaloneName,
                                    node |-> id, walk |-> walk])]

\* the strings that are not empty, joined with newlines
joinLines(ss) ==
    join(filterBoolean(ss), "\n")

\* the texts of r joined with newlines
joined(r) ==
    Ret(r.st, joinLines(r.v))

\* the text a, then the text of b
concatText(a, b) ==
    Ret(b.st, a \o b.v)

RECURSIVE enumMembers(_, _, _)

\* keyName + ' = ' + generateType(ast, options), then the other members
enumMember(r, keyName, ms, o) ==
    consResult(keyName \o " = " \o r.v, enumMembers(r.st, ms, o))

\* ast.params.map(({ast, keyName}) => keyName + ' = ' + generateType(ast))
enumMembers(st, ms, o) ==
    IF Len(ms) = 0 \/ st.err THEN Ret(st, <<>>)
    ELSE enumMember(generateType(st, st.heap[ms[1]].params[1], o, 0),
                    st.heap[ms[1]].keyName, Tail(ms), o)

\* the text of generateStandaloneEnum, given the members' texts r
enumText(r, id, ast, o) ==
    IF r.st.err THEN Ret(r.st, "")
    ELSE Ret(declared(r.st, id, "enum"),
             memberComment(ast) \o "export "
             \o (IF o.enableConstEnums THEN "const " ELSE "")
             \o "enum " \o toSafeString(ast.standaloneName) \o " {" \o "\n"
             \o join(r.v, ",\n") \o "\n" \o "}")

generateStandaloneEnum(st, id, o) ==
    enumText(enumMembers(st, st.heap[id].params, o), id, st.heap[id], o)

\* ast.superTypes.map(superType => toSafeString(superType.standaloneName))
superNames(h, ast) ==
    [i \in 1..Len(ast.superTypes) |->
        toSafeString(h[ast.superTypes[i]].standaloneName)]

\* the text of generateStandaloneInterface, given the block r
classText(r, id, ast, supers) ==
    IF r.st.err THEN Ret(r.st, "")
    ELSE Ret(declared(r.st, id, "interface"),
             memberComment(ast) \o "export class "
             \o toSafeString(ast.standaloneName) \o " extends Annotated "
             \o (IF Len(supers) > 0
                 THEN "extends " \o join(supers, ", ") \o " " ELSE "")
             \o r.v)

generateStandaloneInterface(st, id, o) ==
    classText(generateInterface(st, st.heap[id], o, 0), id, st.heap[id],
              superNames(st.heap, st.heap[id]))

\* the text of generateStandaloneType, given the generated type r
typeText(r, id, ast) ==
    IF r.st.err THEN Ret(r.st, "")
    ELSE Ret(declared(r.st, id, "type"),
             (IF hasComment(ast)
              THEN generateComment(ast.comment, FALSE) \o "\n" ELSE "")
             \o (IF startsWith(r.v, "{")
                 THEN "export class " \o toSafeString(ast.standaloneName)
                      \o " extends Annotated " \o r.v
                 ELSE "export type " \o toSafeString(ast.standaloneName)
                      \o " = " \o r.v))

generateStandaloneType(st, id, o) ==
    typeText(generateTypeOfCopy(st, omit(st.heap[id]), o, 0), id, st.heap[id])

RECURSIVE declareEnums(_, _, _)
RECURSIVE declareEnumsAll(_, _, _)
RECURSIVE declareNamedInterfaces(_, _, _, _)
RECURSIVE declareNamedInterfacesAll(_, _, _, _)
RECURSIVE declareNamedTypes(_, _, _, _)
RECURSIVE declareNamedTypesAll(_, _, _, _)
RECURSIVE declareNamedTypesGated(_, _, _, _)

\* prev + declareEnums(ast, ...), then the other ids
declareEnumsRest(r, ids, o) ==
    concatText(r.v, declareEnumsAll(r.st, ids, o))

\* ids.reduce((prev, ast) => prev + declareEnums(ast, ...), '')
declareEnumsAll(st, ids, o) ==
    IF Len(ids) = 0 \/ st.err THEN Ret(st, "")
    ELSE declareEnumsRest(declareEnums(st, ids[1], o), Tail(ids), o)

\* generateStandaloneEnum(ast, options) + '\n'
enumLine(r) ==
    Ret(r.st, r.v \o "\n")

\* if (ast.spreadParam) type += declareEnums(ast.spreadParam, ...)
declareEnumsSpread(r, spreadParam, o) ==
    IF spreadParam # NoNode
    THEN concatText(r.v, declareEnums(r.st, spreadParam, o))
    ELSE r

\* the switch of declareEnums
declareEnumsNode(st, id, ast, o) ==
    CASE ast.type = "ENUM" -> enumLine(generateStandaloneEnum(st, id, o))
      [] ast.type = "ARRAY" -> declareEnums(st, ast.params[1], o)
      [] ast.type \in {"UNION", "INTERSECTION"} ->
            declareEnumsAll(st, ast.params, o)
      [] ast.type = "TUPLE" ->
            declareEnumsSpread(declareEnumsAll(st, ast.params, o),
                               ast.spreadParam, o)
      [] ast.type = "INTERFACE" ->
            declareEnumsAll(st, getSuperTypesAndParams(st.heap, ast), o)
      [] OTHER -> Ret(st, "")

declareEnums(st, id, o) ==
    IF st.err \/ id \in st.processed THEN Ret(st, "")
    ELSE declareEnumsNode([st EXCEPT !.processed = @ \cup {id}], id,
                          st.heap[id], o)

\* the declaration of the first id as r, then the other ids
declareNamedInterfacesRest(r, ids, o, rootASTName) ==
    consResult(r.v, declareNamedInterfacesAll(r.st, ids, o, rootASTName))

\* ids.map(_ => declareNamedInterfaces(_, ...))
declareNamedInterfacesAll(st, ids, o, rootASTName) ==
    IF Len(ids) = 0 \/ st.err THEN Ret(st, <<>>)
    ELSE declareNamedInterfacesRest(
             declareNamedInterfaces(st, ids[1], o, rootASTName), Tail(ids), o,
             rootASTName)

\* whether a node with this name is declared: the root's name, or any name
\* with declareExternallyReferenced
isDeclared(ast, o, rootASTName) ==
    ast.standaloneName = rootASTName \/ o.declareExternallyReferenced

\* [own, rest].filter(Boolean).join('\n')
ownAndRest(own, rest) ==
    Ret(rest.st, joinLines(<<own, rest.v>>))

\* the interface's own declaration as own, then its super types and params
declareInterfaceRest(own, ast, o, rootASTName) ==
    ownAndRest(own.v,
               joined(declareNamedInterfacesAll(
                          own.st, getSuperTypesAndParams(own.st.heap, ast), o,
                          rootASTName)))

\* the INTERFACE case of declareNamedInterfaces
declareInterface(st, id, ast, o, rootASTName) ==
    IF hasStandaloneName(ast) /\ isDeclared(ast, o, rootASTName)
    THEN declareInterfaceRest(generateStandaloneInterface(st, id, o), ast, o,
                              rootASTName)
    ELSE declareInterfaceRest(Ret(st, ""), ast, o, rootASTName)

\* if (ast.type === 'TUPLE' && ast.spreadParam) type += declare...(spread)
declareInterfacesSpread(r, ast, o, rootASTName) ==
    IF ast.type = "TUPLE" /\ ast.spreadParam # NoNode
    THEN concatText(r.v, declareNamedInterfaces(r.st, ast.spreadParam, o,
                                                rootASTName))
    ELSE r

\* the switch of declareNamedInterfaces
declareNamedInterfacesNode(st, id, ast, o, rootASTName) ==
    CASE ast.type = "ARRAY" ->
            declareNamedInterfaces(st, ast.params[1], o, rootASTName)
      [] ast.type = "INTERFACE" -> declareInterface(st, id, ast, o, rootASTName)
      [] ast.type \in {"INTERSECTION", "TUPLE", "UNION"} ->
            declareInterfacesSpread(
                joined(declareNamedInterfacesAll(st, ast.params, o,
                                                 rootASTName)),
                ast, o, rootASTName)
      [] OTHER -> Ret(st, "")

declareNamedInterfaces(st, id, o, rootASTName) ==
    IF st.err \/ id \in st.processed THEN Ret(st, "")
    ELSE declareNamedInterfacesNode([st EXCEPT !.processed = @ \cup {id}], id,
                                    st.heap[id], o, rootASTName)

\* the declaration of the first id as r, then the other ids
declareNamedTypesRest(r, ids, o, rootASTName) ==
    consResult(r.v, declareNamedTypesAll(r.st, ids, o, rootASTName))

\* ids.map(_ => declareNamedTypes(_, ...))
declareNamedTypesAll(st, ids, o, rootASTName) ==
    IF Len(ids) = 0 \/ st.err THEN Ret(st, <<>>)
    ELSE declareNamedTypesRest(declareNamedTypes(st, ids[1], o, rootASTName),
                               Tail(ids), o, rootASTName)

\* the declaration of the first id as r, then the other ids, gated
declareNamedTypesGatedRest(r, ids, o, rootASTName) ==
    consResult(r.v, declareNamedTypesGated(r.st, ids, o, rootASTName))

\* ids.map(ast => (ast.standaloneName === rootASTName ||
\*                 options.declareExternallyReferenced) &&
\*                declareNamedTypes(ast, ...))
declareNamedTypesGated(st, ids, o, rootASTName) ==
    IF Len(ids) = 0 \/ st.err THEN Ret(st, <<>>)
    ELSE IF isDeclared(st.heap[ids[1]], o, rootASTName)
    THEN declareNamedTypesGatedRest(
             declareNamedTypes(st, ids[1], o, rootASTName), Tail(ids), o,
             rootASTName)
    ELSE declareNamedTypesGatedRest(Ret(st, ""), Tail(ids), o, rootASTName)

\* a walk that leaves out the node's own declaration
declareOwnTypeNever(st, id, ast, o) ==
    Ret(st, "")

\* hasStandaloneName(ast) ? generateStandaloneType(ast, options) : undefined
declareOwnType(st, id, ast, o) ==
    IF hasStandaloneName(ast) THEN generateStandaloneType(st, id, o)
    ELSE Ret(st, "")

\* [r, own].filter(Boolean).join('\n') of the ARRAY case
declareArrayOwn(r, own) ==
    Ret(own.st, joinLines(<<r, own.v>>))

\* the ARRAY case, after the walk of the element
declareArrayType(r, id, ast, o) ==
    declareArrayOwn(r.v, declareOwnType(r.st, id, ast, o))

\* [own, params, s].filter(Boolean).join('\n') of the set and tuple case
declareSetTexts(own, params, s) ==
    Ret(s.st, joinLines(<<own, params, s.v>>))

\* 'spreadParam' in ast && ast.spreadParam ? declareNamedTypes(...) : undefined
declareSetSpread(own, r, ast, o, rootASTName) ==
    IF ast.spreadParam # NoNode
    THEN declareSetTexts(own, r.v,
                         declareNamedTypes(r.st, ast.spreadParam, o,
                                           rootASTName))
    ELSE declareSetTexts(own, r.v, Ret(r.st, ""))

\* the set and tuple case, after the node's own declaration
declareSetParams(own, ast, o, rootASTName) ==
    declareSetSpread(own.v,
                     joined(declareNamedTypesAll(own.st, ast.params, o,
                                                 rootASTName)),
                     ast, o, rootASTName)

\* the switch of declareNamedTypes
declareNamedTypesNode(st, id, ast, o, rootASTName) ==
    CASE ast.type = "ARRAY" ->
            declareArrayType(declareNamedTypes(st, ast.params[1], o,
                                               rootASTName),
                             id, ast, o)
      [] ast.type = "ENUM" -> Ret(st, "")
      [] ast.type = "INTERFACE" ->
            joined(declareNamedTypesGated(
                       st, getSuperTypesAndParams(st.heap, ast), o,
                       rootASTName))
      [] ast.type \in {"INTERSECTION", "TUPLE", "UNION"} ->
            declareSetParams(declareOwnType(st, id, ast, o), ast, o,
                             rootASTName)
      [] OTHER -> declareOwnType(st, id, ast, o)

declareNamedTypes(st, id, o, rootASTName) ==
    IF st.err \/ id \in st.processed THEN Ret(st, "")
    ELSE declareNamedTypesNode([st EXCEPT !.processed = @ \cup {id}], id,
                               st.heap[id], o, rootASTName)

\* a walk starts with an empty processed set
freshWalk(st) ==
    [st EXCEPT !.processed = {}]

\* declareEnums(ast, options), after the other two walks
enumsSection(banner, t, i, e) ==
    Ret(e.st, <<banner, t, i, e.v>>)

\* declareNamedInterfaces(ast, options, ast.standaloneName), after the types
interfacesSection(banner, t, i, id, o) ==
    enumsSection(banner, t, i.v, declareEnums(freshWalk(i.st), id, o))

\* declareNamedTypes(ast, options, ast.standaloneName)
typesSection(t, id, o, rootASTName) ==
    interfacesSection(o.bannerComment, t.v,
                      declareNamedInterfaces(freshWalk(t.st), id, o,
                                             rootASTName),
                      id, o)

\* the sections after the prefix: banner, named types, named interfaces,
\* enums
sections(st, id, o) ==
    typesSection(declareNamedTypes(freshWalk(st), id, o,
                                   st.heap[id].standaloneName),
                 id, o, st.heap[id].standaloneName)

\* how generate puts the prefix and the sections together
assemble(secs) ==
    prefix \o join(filterBoolean(secs), "\n\n") \o "\n"

\* return prefix + types
assembled(r) ==
    IF r.st.err THEN Ret(r.st, "") ELSE Ret(r.st, assemble(r.v))

generate(st, id, o) ==
    assembled(sections(st, id, o))

----------------------------------------------------------------------------
(* The trees the calls are made on *)

\* The tree of a blueprint: the root object (id RootId), the param objects
\* of an INTERFACE root, then one block of objects per slot "A", "B", "C".
\* A slot holds one small subtree, described by a template
\*   [type, named, comment, inner]
\* where inner is the type of the one object below it ("" for none, "ROOT"
\* for a reference back to the root).
RootId ==
    Len(ConstHeap) + 1

Template(type, named, comment, inner) ==
    [type |-> type, named |-> named, comment |-> comment, inner |-> inner]

\* no subtree
None ==
    Template("", FALSE, NoName, "")

Leaf(type) ==
    Template(type, FALSE, NoName, "")

Named(type) ==
    Template(type, TRUE, NoName, "")

SlotNames ==
    <<"A", "B", "C">>

\* the objects of one slot; b is the id of the first, nm the standalone
\* name the slot's object takes when it is named, other a name of another
\* slot (the text of a REFERENCE)
block(t, b, nm, other, key) ==
    LET top == [Node(t.type) EXCEPT
                    !.standaloneName = IF t.named THEN nm ELSE NoName,
                    !.comment = t.comment,
                    !.value = CASE t.type = "LITERAL" -> "a"
                                [] t.type \in {"REFERENCE", "CUSTOM_TYPE"} -> other
                                [] OTHER -> NoName]
        innerLeaf == [Node(t.inner) EXCEPT
                        !.value = IF t.inner = "LITERAL" THEN "a" ELSE NoName]
    IN  IF t.type = "" THEN <<>>
        ELSE IF t.inner = "" THEN <<top>>
        ELSE IF t.type \in {"INTERFACE", "ENUM"}
        THEN LET astId == IF t.inner = "ROOT" THEN RootId ELSE b + 2
                 param == [Node("PARAM") EXCEPT !.keyName = key,
                                                !.params = <<astId>>,
                                                !.isRequired = TRUE]
             IN  <<[top EXCEPT !.params = <<b + 1>>], param>>
                 \o (IF t.inner = "ROOT" THEN <<>> ELSE <<innerLeaf>>)
        ELSE IF t.inner = "ROOT"
        THEN <<[top EXCEPT !.params = <<RootId>>]>>
        ELSE <<[top EXCEPT !.params = <<b + 1>>], innerLeaf>>

\* A blueprint: the root's type, whether it is named, its params and super
\* types (slot names, or "R" for the root itself), the tuple fields, and the
\* slots' templates.
Blueprint(type, named, params, supers, minItems, maxItems, spread, A, B, C) ==
    [type |-> type, named |-> named, params |-> params, supers |-> supers,
     minItems |-> minItems, maxItems |-> maxItems, spread |-> spread,
     A |-> A, B |-> B, C |-> C]


\* the object of a slot name: "R" is the root
ref(at, x) ==
    CASE x = "R" -> at.R
      [] x = "A" -> at.A
      [] x = "B" -> at.B
      [] x = "C" -> at.C
      [] OTHER -> NoNode

\* the param objects of an INTERFACE root, keyed "a", "b", "c"
rootMembers(bp, at) ==
    IF bp.type = "INTERFACE"
    THEN [i \in 1..Len(bp.params) |->
            [Node("PARAM") EXCEPT !.keyName = <<"a", "b", "c">>[i],
                                  !.params = <<ref(at, bp.params[i])>>,
                                  !.isRequired = TRUE]]
    ELSE <<>>

rootNode(bp, at) ==
    [Node(bp.type) EXCEPT
        !.standaloneName = IF bp.named THEN "R" ELSE NoName,
        !.params = IF bp.type = "INTERFACE"
                   THEN [i \in 1..Len(bp.params) |-> RootId + i]
                   ELSE [i \in 1..Len(bp.params) |-> ref(at, bp.params[i])],
        !.superTypes = [i \in 1..Len(bp.supers) |-> ref(at, bp.supers[i])],
        !.minItems = bp.minItems,
        !.maxItems = bp.maxItems,
        !.spreadParam = ref(at, bp.spread)]

\* the id of the first object of slot "A"
firstSlot(bp) ==
    RootId + 1 + (IF bp.type = "INTERFACE" THEN Len(bp.params) ELSE 0)

BuildRoot(bp, at, blocks) ==
    ConstHeap \o <<rootNode(bp, at)>> \o rootMembers(bp, at) \o blocks

BuildC(bp, baseA, baseB, baseC, blocks) ==
    BuildRoot(bp, [R |-> RootId, A |-> baseA, B |-> baseB, C |-> baseC],
              blocks \o block(bp.C, baseC, "C", "A", "a"))

BuildB(bp, baseA, baseB, blockA, blockB) ==
    BuildC(bp, baseA, baseB, baseB + Len(blockB), blockA \o blockB)

BuildA(bp, baseA, blockA) ==
    BuildB(bp, baseA, baseA + Len(blockA), blockA,
           block(bp.B, baseA + Len(blockA), "B", "A", "b"))

Build(bp) ==
    BuildA(bp, firstSlot(bp), block(bp.A, firstSlot(bp), "A", "B", "a"))

----------------------------------------------------------------------------
(* Options *)

Options(unknownAny, declareExternallyReferenced, bannerComment) ==
    [unknownAny |-> unknownAny,
     declareExternallyReferenced |-> declareExternallyReferenced,
     strictIndexSignatures |-> FALSE,
     enableConstEnums |-> TRUE,
     bannerComment |-> bannerComment]

----------------------------------------------------------------------------
(* What a call leaves behind for the properties to read *)

RECURSIVE Unfold(_, _, _)
\* the structure below object id, to depth k: the payloads with the object
\* references replaced by the structures they lead to
Unfold(h, id, k) ==
    IF k = 0 \/ id = NoNode
    THEN [node |-> Node("..."), params |-> <<>>, superTypes |-> <<>>,
          spreadParam |-> <<>>]
    ELSE [node |-> [h[id] EXCEPT !.params = <<>>, !.superTypes = <<>>,
                                 !.spreadParam = NoNode],
          params |-> [i \in 1..Len(h[id].params) |->
                         Unfold(h, h[id].params[i], k - 1)],
          superTypes |-> [i \in 1..Len(h[id].superTypes) |->
                             Unfold(h, h[id].superTypes[i], k - 1)],
          spreadParam |-> IF h[id].spreadParam = NoNode THEN <<>>
                          ELSE <<Unfold(h, h[id].spreadParam, k - 1)>>]

\* how deep two results are compared
UnfoldDepth ==
    5

NoCall ==
    [op |-> "none", arg |-> NoNode, res |-> NoNode, text |-> "", err |-> FALSE,
     hit |-> FALSE,
     log |-> <<>>, decls |-> <<>>, secs |-> <<>>, before |-> <<>>,
     after |-> <<>>, optimized |-> 0, o |-> Options(TRUE, TRUE, "")]

----------------------------------------------------------------------------
(* The calls *)

\* what root = optimize(root, options) leaves, r being what optimize did
Optimized(r) ==
    /\ heap' = r.st.heap
    /\ memo' = r.st.memo
    /\ root' = IF r.st.err THEN root ELSE r.v
    /\ last' = [NoCall EXCEPT
                  !.op = "optimize", !.arg = root, !.res = r.v,
                  !.err = r.st.err, !.log = r.st.log,
                  !.before = Unfold(heap, root, UnfoldDepth),
                  !.after = Unfold(r.st.heap, r.v, UnfoldDepth),
                  !.optimized = last.optimized + 1, !.o = options]

\* root = optimize(root, options)
Optimize ==
    /\ runs < MaxRuns
    /\ Optimized(optimize(Thread(heap, memo), root, options))
    /\ runs' = runs + 1
    /\ UNCHANGED <<options, derefVars>>

\* what generateType(root, options) leaves, r being what it did
Rendered(r) ==
    /\ memo' = r.st.memo
    /\ last' = [NoCall EXCEPT
                  !.op = "render", !.arg = root, !.text = r.v,
                  !.err = r.st.err, !.hit = root \in DOMAIN memo,
                  !.optimized = last.optimized,
                  !.o = options]

\* generateType(root, options)
Render ==
    /\ runs < MaxRuns
    /\ Rendered(generateType(Thread(heap, memo), root, options, 0))
    /\ runs' = runs + 1
    /\ UNCHANGED <<heap, root, options, derefVars>>

\* what generate(root, options) leaves: r is what it did, s its sections
Generated(r, s) ==
    /\ memo' = r.st.memo
    /\ last' = [NoCall EXCEPT
                  !.op = "generate", !.arg = root, !.text = r.v,
                  !.err = r.st.err, !.decls = r.st.decls,
                  !.secs = IF s.st.err THEN <<>> ELSE s.v,
                  !.optimized = last.optimized, !.o = options]

\* generate(root, options)
Generate ==
    /\ runs < MaxRuns
    /\ Generated(generate(Thread(heap, memo), root, options),
                 sections(Thread(heap, memo), root, options))
    /\ runs' = runs + 1
    /\ UNCHANGED <<heap, root, options, derefVars>>

\* the caller makes its next call with the other unknownAny
Reconfigure ==
    /\ runs < MaxRuns
    /\ options' = [options EXCEPT !.unknownAny = ~@]
    /\ UNCHANGED <<heap, root, memo, runs, last, derefVars>>

Next ==
    \/ Optimize
    \/ Render
    \/ Generate
    \/ Reconfigure

InitOf(blueprints, opts) ==
    /\ \E bp \in blueprints : heap = Build(bp)
    /\ root = RootId
    /\ memo = <<>>
    /\ options \in opts
    /\ runs = 0
    /\ last = NoCall
    /\ dereferencedPaths = <<>>
    /\ events = <<>>
    /\ returned = FALSE

----------------------------------------------------------------------------
(* Unions, intersections and the shapes that hold them: the trees of the   *)
(* optimizer's rules                                                       *)

SetLeaves ==
    {Leaf("ANY"), Leaf("UNKNOWN"), Leaf("NULL"), Leaf("NUMBER"),
     Named("NUMBER"), Leaf("STRING"), Named("STRING"), Leaf("LITERAL"),
     Leaf("BOOLEAN"), Leaf("REFERENCE")}

SetSubtrees ==
    {Template("INTERFACE", FALSE, NoName, "STRING"),
     Template("INTERFACE", FALSE, NoName, "NUMBER"),
     Template("INTERFACE", TRUE, NoName, "NUMBER"),
     Template("UNION", FALSE, NoName, "LITERAL"),
     Template("ARRAY", FALSE, NoName, "LITERAL")}

SetRoots ==
    {"UNION", "INTERSECTION", "TUPLE", "INTERFACE", "ARRAY"}

SetThird ==
    {Leaf("NULL"), Leaf("BOOLEAN"),
     Template("INTERFACE", FALSE, NoName, "BOOLEAN")}

SetBlueprints ==
    {Blueprint(t, FALSE, ps, <<>>, 0, 0, "", a, None, None) :
        t \in SetRoots, ps \in {<<"A">>, <<"A", "A">>},
        a \in SetLeaves \cup SetSubtrees}
    \cup
    {Blueprint(t, FALSE, ps, <<>>, 0, 0, "", a, b, None) :
        t \in SetRoots \ {"ARRAY"},
        ps \in {<<"A", "B">>, <<"A", "B", "A">>},
        a \in SetLeaves \cup SetSubtrees,
        b \in SetLeaves \cup SetSubtrees}
    \cup
    {Blueprint(t, FALSE, <<"A", "B", "C">>, <<>>, 0, 0, "", a, b, c) :
        t \in {"UNION", "INTERSECTION"},
        a \in SetLeaves \cup SetSubtrees,
        b \in SetLeaves \cup SetSubtrees,
        c \in SetThird}

InitSets ==
    InitOf(SetBlueprints, {Options(TRUE, TRUE, "")})

Spec ==
    InitSets /\ [][Next]_vars

----------------------------------------------------------------------------
(* Trees with a cycle through the root *)

CyclicSubtrees ==
    {Leaf("NUMBER"), Leaf("LITERAL"),
     Template("ARRAY", FALSE, NoName, "ROOT"),
     Template("ARRAY", TRUE, NoName, "ROOT"),
     Template("UNION", FALSE, NoName, "ROOT"),
     Template("UNION", TRUE, NoName, "ROOT"),
     Template("INTERFACE", FALSE, NoName, "ROOT")}

\* a reference back to the root
IsBackEdge(t) ==
    t.inner = "ROOT"

CyclicBlueprints ==
    {Blueprint(t, named, ps, <<>>, 0, 0, "", None, None, None) :
        t \in SetRoots, named \in BOOLEAN, ps \in {<<"R">>}}
    \cup
    {Blueprint(t, named, ps, <<>>, 0, 0, "", a, None, None) :
        t \in SetRoots \ {"ARRAY"}, named \in BOOLEAN,
        ps \in {<<"R", "A">>, <<"A", "R">>}, a \in CyclicSubtrees}
    \cup
    {Blueprint(t, named, ps, <<>>, 0, 0, "", a, None, None) :
        t \in SetRoots, named \in BOOLEAN, ps \in {<<"A">>},
        a \in {c \in CyclicSubtrees : IsBackEdge(c)}}

InitCyclic ==
    InitOf(CyclicBlueprints, {Options(TRUE, TRUE, "")})

SpecCyclic ==
    InitCyclic /\ [][Next]_vars

----------------------------------------------------------------------------
(* Tuples *)

\* the largest minItems / maxItems of the tuples
MaxTupleItems ==
    3

TupleBlueprints ==
    {Blueprint("TUPLE", FALSE, ps, <<>>, mn, mx, sp,
               IF Len(ps) >= 1 THEN a ELSE None,
               IF Len(ps) >= 2 THEN Leaf("NUMBER") ELSE None,
               IF sp = "C" THEN Leaf("BOOLEAN") ELSE None) :
        ps \in {<<>>, <<"A">>, <<"A", "B">>},
        mn \in 0..MaxTupleItems, mx \in 0..MaxTupleItems, sp \in {"", "C"},
        a \in {Leaf("STRING"), Leaf("LITERAL")}}

InitTuple ==
    InitOf(TupleBlueprints, {Options(TRUE, TRUE, ""), Options(FALSE, TRUE, "")})

SpecTuple ==
    InitTuple /\ [][Next]_vars

----------------------------------------------------------------------------
(* Trees with standalone names, for generate *)

GenSubtrees ==
    {Leaf("NUMBER"), Named("NUMBER"), Named("STRING"),
     Template("ENUM", TRUE, NoName, "LITERAL"),
     Template("INTERFACE", TRUE, NoName, "NUMBER"),
     Template("INTERFACE", FALSE, "about", "BOOLEAN"),
     Template("ARRAY", TRUE, NoName, "ROOT"),
     Template("UNION", TRUE, NoName, "ROOT"),
     Template("UNION", TRUE, NoName, "NUMBER"),
     Template("INTERFACE", TRUE, NoName, "ROOT")}

GenOptions ==
    {Options(TRUE, d, b) : d \in BOOLEAN, b \in {"", "/* banner */"}}

GenBlueprints ==
    {Blueprint(t, named, ps, <<>>, 0, 0, "", a, None, None) :
        t \in SetRoots, named \in BOOLEAN,
        ps \in {<<"A">>, <<"A", "A">>, <<"A", "R">>}, a \in GenSubtrees}
    \cup
    {Blueprint(t, named, <<"A", "B">>, <<>>, 0, 0, "", a, b, None) :
        t \in {"INTERFACE", "UNION", "TUPLE"}, named \in BOOLEAN,
        a \in GenSubtrees, b \in GenSubtrees}
    \cup
    {Blueprint("INTERFACE", named, <<"A">>, <<"B">>, 0, 0, "", a,
               Template("INTERFACE", TRUE, NoName, "NUMBER"), None) :
        named \in BOOLEAN, a \in GenSubtrees}
    \cup
    {Blueprint("TUPLE", named, <<"A">>, <<>>, 1, 0, "B", a, b, None) :
        named \in BOOLEAN, a \in GenSubtrees, b \in GenSubtrees}

InitGen ==
    InitOf(GenBlueprints, GenOptions)

SpecGen ==
    InitGen /\ [][Next]_vars

----------------------------------------------------------------------------
(* Interfaces with one or two members, for generateInterface *)

\* what a member's ast is: a leaf, or an ARRAY and what its element is
MemberShapes ==
    {"STRING", "BOOLEAN", "OBJECT", "ARRAY_STRING", "ARRAY_BOOLEAN",
     "ARRAY_NAMED", "ARRAY_ANY", "ARRAY_UNION", "ARRAY_MAP"}

\* an ARRAY whose element is object id
ArrayOf(id) ==
    [Node("ARRAY") EXCEPT !.params = <<id>>]

\* the objects of a member's ast; b is the id of the first
shapeBlock(shape, b) ==
    CASE shape = "ARRAY_STRING" -> <<ArrayOf(b + 1), Node("STRING")>>
      [] shape = "ARRAY_BOOLEAN" -> <<ArrayOf(b + 1), Node("BOOLEAN")>>
      [] shape = "ARRAY_ANY" -> <<ArrayOf(b + 1), Node("ANY")>>
      [] shape = "ARRAY_NAMED" ->
            <<ArrayOf(b + 1),
              [Node("INTERFACE") EXCEPT !.standaloneName = "N"]>>
      [] shape = "ARRAY_UNION" ->
            <<ArrayOf(b + 1), [Node("UNION") EXCEPT !.params = <<b + 2>>],
              Node("STRING")>>
      [] shape = "ARRAY_MAP" ->
            <<ArrayOf(b + 1), [Node("INTERFACE") EXCEPT !.params = <<b + 2>>],
              [Node("PARAM") EXCEPT !.keyName = INDEX_KEY,
                                    !.params = <<b + 3>>,
                                    !.isRequired = TRUE],
              Node("BOOLEAN")>>
      [] OTHER -> <<Node(shape)>>

\* one member: its key, the shape of its ast, isRequired, and flag, which
\* is "pattern", "unreachable" or ""
Member(key, shape, isRequired, flag) ==
    [key |-> key, shape |-> shape, isRequired |-> isRequired, flag |-> flag]

\* the param object of member m, whose ast is object astId
memberParam(m, astId) ==
    [Node("PARAM") EXCEPT !.keyName = m.key,
                          !.params = <<astId>>,
                          !.isRequired = m.isRequired,
                          !.isPatternProperty = (m.flag = "pattern"),
                          !.isUnreachableDefinition = (m.flag = "unreachable")]

\* the id of the ast of member i: the blocks follow the param objects
memberAst(ms, i) ==
    IF i = 1 THEN RootId + Len(ms) + 1
    ELSE RootId + Len(ms) + 1 + Len(shapeBlock(ms[1].shape, 0))

\* the heap of an anonymous INTERFACE with the members ms (one or two)
BuildMembers(ms) ==
    ConstHeap
    \o <<[Node("INTERFACE") EXCEPT
             !.params = [i \in 1..Len(ms) |-> RootId + i]]>>
    \o [i \in 1..Len(ms) |-> memberParam(ms[i], memberAst(ms, i))]
    \o shapeBlock(ms[1].shape, memberAst(ms, 1))
    \o (IF Len(ms) = 2 THEN shapeBlock(ms[2].shape, memberAst(ms, 2))
        ELSE <<>>)

FirstMembers ==
    {Member(key, shape, isRequired, flag) :
        key \in {"a", INDEX_KEY}, shape \in MemberShapes,
        isRequired \in BOOLEAN, flag \in {"", "pattern", "unreachable"}}

SecondMembers ==
    {Member("b", "STRING", TRUE, ""), Member("b", "OBJECT", FALSE, ""),
     Member(INDEX_KEY, "STRING", TRUE, "")}

MemberLists ==
    {<<m>> : m \in FirstMembers}
    \cup {<<m, n>> : m \in FirstMembers, n \in SecondMembers}

InitMembers ==
    /\ \E ms \in MemberLists : heap = BuildMembers(ms)
    /\ root = RootId
    /\ memo = <<>>
    /\ options \in {Options(TRUE, TRUE, ""), Options(FALSE, TRUE, "")}
    /\ runs = 0
    /\ last = NoCall
    /\ dereferencedPaths = <<>>
    /\ events = <<>>
    /\ returned = FALSE

SpecMembers ==
    InitMembers /\ [][Next]_vars

----------------------------------------------------------------------------
(* dereference (the resolver): the parser expands the $ref pointers of the  *)
(* schema and calls onDereference($ref, schema) for each one it expands,    *)
(* in an order and number of its own choosing                               *)

\* the schema objects a pointer can resolve to
MaxSchemas ==
    3

\* the onDereference calls of one dereference
MaxEvents ==
    3

Schemas ==
    1..MaxSchemas

\* the $ref strings of the schema
Pointers ==
    {"#/defs/Foo", "#/defs/Bar", "#/defs/Baz"}

\* a map that keeps the value a key was first set to
WeakMapSetFirst(m, k, v) ==
    IF k \in DOMAIN m THEN m ELSE m @@ (k :> v)

\* WeakMap.prototype.set: the key's value is v, whatever it was before
WeakMapSet(m, k, v) ==
    [x \in DOMAIN m \cup {k} |-> IF x = k THEN v ELSE m[x]]

\* onDereference($ref, schema) { dereferencedPaths.set(schema, $ref) }
onDereference(pointer, schema) ==
    /\ ~returned
    /\ Len(events) < MaxEvents
    /\ dereferencedPaths' = WeakMapSet(dereferencedPaths, schema, pointer)
    /\ events' = Append(events, [ref |-> pointer, schema |-> schema])
    /\ UNCHANGED <<genVars, returned>>

\* the parser expands one more pointer
OnDereference ==
    \E pointer \in Pointers, schema \in Schemas : onDereference(pointer, schema)

\* return {dereferencedPaths, dereferencedSchema}
DereferenceReturns ==
    /\ ~returned
    /\ returned' = TRUE
    /\ UNCHANGED <<genVars, dereferencedPaths, events>>

NextDeref ==
    \/ OnDereference
    \/ DereferenceReturns

\* const dereferencedPaths = new WeakMap()
InitDeref ==
    /\ heap = ConstHeap
    /\ root = T_STRING
    /\ memo = <<>>
    /\ options = Options(TRUE, TRUE, "")
    /\ runs = 0
    /\ last = NoCall
    /\ dereferencedPaths = <<>>
    /\ events = <<>>
    /\ returned = FALSE

SpecDeref ==
    InitDeref /\ [][NextDeref]_vars

----------------------------------------------------------------------------
(* What the properties read from the last call *)

\* the last call was an optimize that returned
OptimizeReturned ==
    last.op = "optimize" /\ ~last.err

\* the entries optimize logged, one per UNION / INTERSECTION it decided
LogEntries ==
    {last.log[k] : k \in 1..Len(last.log)}

HasKind(e, kind) ==
    \E i \in 1..Len(e.kinds) : e.kinds[i] = kind

----------------------------------------------------------------------------
(* C1 *)

\* C1: optimize is idempotent: optimizing a tree that is already the result
\* of optimize (with a fresh visited set) returns a structurally equal tree,
\* also when one object is referenced from several positions.
C1_Idempotent ==
    (OptimizeReturned /\ last.optimized >= 2) => last.after = last.before

----------------------------------------------------------------------------
(* C2 *)

\* C2: optimize and generateType return on every cyclic graph, whether or
\* not a node on the cycle has a standalone name: no call exhausts the call
\* stack.
C2_Terminates ==
    last.op \in {"optimize", "render"} => ~last.err

----------------------------------------------------------------------------
(* C3 *)

\* what optimize returned for the set of entry e is a STRING object
ReturnedString(e) ==
    e.res \in DOMAIN heap /\ heap[e.res].type = "STRING"

\* C3: for every UNION / INTERSECTION, over the optimized params with the
\* NULL ones dropped: the result is T_ANY when some param is ANY (even with
\* an UNKNOWN beside it), otherwise T_UNKNOWN when some param is UNKNOWN,
\* otherwise a STRING when every param is LITERAL or STRING; the root's
\* entry is what optimize returns.
C3_DecisionOrder ==
    OptimizeReturned =>
        \A e \in LogEntries :
            /\ ~HasKind(e, "NULL")
            /\ HasKind(e, "ANY") => e.res = T_ANY
            /\ (~HasKind(e, "ANY") /\ HasKind(e, "UNKNOWN"))
                   => e.res = T_UNKNOWN
            /\ (/\ ~HasKind(e, "ANY")
                /\ ~HasKind(e, "UNKNOWN")
                /\ \A i \in 1..Len(e.kinds) : e.kinds[i] \in {"LITERAL", "STRING"})
                   => ReturnedString(e)
            /\ e.node = last.arg => last.res = e.res

\* a set with an ANY and an UNKNOWN param was optimized to T_ANY, and it was
\* the root
C3_AnyOverUnknown ==
    /\ OptimizeReturned
    /\ \E e \in LogEntries :
           /\ HasKind(e, "ANY")
           /\ HasKind(e, "UNKNOWN")
           /\ e.node = last.arg
           /\ last.res = T_ANY

----------------------------------------------------------------------------
(* C4 *)

\* the params that were left of the set of entry e, after the NULL drop and
\* the two dedup steps, are two or more INTERFACE objects
SeveralInterfaces(e) ==
    /\ Len(e.uniq) >= 2
    /\ \A i \in 1..Len(e.uniq) : heap[e.uniq[i]].type = "INTERFACE"

RECURSIVE AllMembers(_)
\* the member objects of the interfaces ps, in parameter order
AllMembers(ps) ==
    IF Len(ps) = 0 THEN <<>> ELSE heap[ps[1]].params \o AllMembers(Tail(ps))

\* the positions of ms whose key name no earlier position has
FirstOfKey(ms) ==
    {k \in 1..Len(ms) :
        \A j \in 1..(k - 1) : heap[ms[j]].keyName # heap[ms[k]].keyName}

\* the members of ms at the positions keep, in their order
MembersAt(ms, keep) ==
    [a \in 1..Cardinality(keep) |->
        ms[CHOOSE k \in keep : Cardinality({x \in keep : x <= k}) = a]]

\* C4 (as the code has it): when two or more INTERFACE params are left of a
\* UNION / INTERSECTION, optimize returns the set node itself, with one
\* param: a new INTERFACE without standalone name whose members are the
\* members of all the params in parameter order, each key name kept from
\* the first param that has it.
C4_MergedIntoOneParam ==
    OptimizeReturned =>
        \A e \in LogEntries :
            SeveralInterfaces(e) =>
                /\ e.res = e.node
                /\ heap[e.node].type \in {"UNION", "INTERSECTION"}
                /\ Len(heap[e.node].params) = 1
                /\ heap[heap[e.node].params[1]].type = "INTERFACE"
                /\ heap[heap[e.node].params[1]].standaloneName = NoName
                /\ heap[heap[e.node].params[1]].params
                       = MembersAt(AllMembers(e.uniq),
                                   FirstOfKey(AllMembers(e.uniq)))
                /\ e.node = last.arg => last.res = e.node

\* a set of interfaces was merged, two of which have a member of the same
\* key name, and the merged interface has two or more members
C4_MergedWithClash ==
    /\ OptimizeReturned
    /\ \E e \in LogEntries :
           /\ SeveralInterfaces(e)
           /\ e.node = last.arg
           /\ Len(heap[heap[e.node].params[1]].params) >= 2
           /\ Len(heap[heap[e.node].params[1]].params)
                  < Len(AllMembers(e.uniq))

\* C4 (as the specification has it): optimize of a set whose params are two
\* or more interfaces yields one INTERFACE node.
C4_YieldsInterface ==
    OptimizeReturned =>
        \A e \in LogEntries :
            (SeveralInterfaces(e) /\ e.node = last.arg)
                => heap[last.res].type = "INTERFACE"

----------------------------------------------------------------------------
(* C5 *)

\* the params of the set of entry e were deduplicated (the set was not
\* turned into any, unknown or string)
Deduplicated(e) ==
    e.out \in {"KEEP", "MERGE"}

\* C5: after optimize of a UNION / INTERSECTION, params that render the same
\* text are reduced to one; when one of them has a standalone name the one
\* that stays has one; no two params that stay render the same text.
C5_NamedSurvives ==
    OptimizeReturned =>
        \A e \in LogEntries :
            Deduplicated(e) =>
                /\ \A i, j \in 1..Len(e.uniq) :
                       i # j =>
                           \A a, b \in 1..Len(e.named) :
                               (e.named[a] = e.uniq[i] /\ e.named[b] = e.uniq[j])
                                   => e.texts[a] # e.texts[b]
                /\ \A a \in 1..Len(e.named) :
                       heap[e.named[a]].standaloneName # NoName =>
                           \E b \in 1..Len(e.named) :
                               /\ e.texts[b] = e.texts[a]
                               /\ \E i \in 1..Len(e.uniq) :
                                      e.uniq[i] = e.named[b]
                               /\ heap[e.named[b]].standaloneName # NoName

----------------------------------------------------------------------------
(* Reading rendered text *)

\* the positions of the character sep in s
SepPositions(s, sep) ==
    {i \in 1..Len(s) : SubSeq(s, i, i) = sep}

\* the k-th position of sep in s; 0 before the first, Len(s) + 1 past the last
SepAt(s, sep, k) ==
    IF k = 0 THEN 0
    ELSE IF k > Cardinality(SepPositions(s, sep)) THEN Len(s) + 1
    ELSE CHOOSE p \in SepPositions(s, sep) :
             Cardinality({q \in SepPositions(s, sep) : q < p}) = k - 1

\* the text of s from position a to position b, empty when b < a
Between(s, a, b) ==
    IF b < a THEN "" ELSE SubSeq(s, a, b)

\* the pieces of s between the occurrences of the character sep
Pieces(s, sep) ==
    [k \in 1..(Cardinality(SepPositions(s, sep)) + 1) |->
        Between(s, SepAt(s, sep, k - 1) + 1, SepAt(s, sep, k) - 1)]

\* how often the text w occurs in s
Occurrences(s, w) ==
    Cardinality({i \in 1..(Len(s) - Len(w) + 1) :
                    SubSeq(s, i, i + Len(w) - 1) = w})

\* how many elements the tuple shape '[e1, e2, ...]' has
ElementCount(shape) ==
    IF Len(shape) <= 2 THEN 0
    ELSE Len(Pieces(SubSeq(shape, 2, Len(shape) - 1), ","))

\* the shape ends with a spread element '...(T)[]'
HasSpread(shape) ==
    Occurrences(shape, "...(") > 0

\* shape a without its closing bracket is the beginning of shape b
PrefixShape(a, b) ==
    /\ Len(a) <= Len(b)
    /\ SubSeq(b, 1, Len(a) - 1) = SubSeq(a, 1, Len(a) - 1)

----------------------------------------------------------------------------
(* C6 *)

\* the last call rendered the root, a TUPLE, and returned
TupleRendered ==
    last.op = "render" /\ ~last.err /\ heap[root].type = "TUPLE"

\* the tuple shapes of the rendered text
TupleShapes ==
    Pieces(last.text, "|")

\* C6: a TUPLE whose padded param count n exceeds minItems renders as a
\* union of n - minItems + 1 shapes, of the lengths minItems to n in
\* increasing order, each the beginning of the next, and only the shape of
\* length n carries the spread; otherwise it renders as one shape.
C6_TupleShapes ==
    TupleRendered =>
        /\ Len(TupleShapes)
               = IF paddedLength(heap[root]) > heap[root].minItems
                 THEN paddedLength(heap[root]) - heap[root].minItems + 1
                 ELSE 1
        /\ \A k \in 1..(Len(TupleShapes) - 1) :
               /\ ~HasSpread(TupleShapes[k])
               /\ ElementCount(TupleShapes[k]) = heap[root].minItems + k - 1
               /\ PrefixShape(TupleShapes[k], TupleShapes[k + 1])
        /\ HasSpread(TupleShapes[Len(TupleShapes)])
               <=> tupleSpreadParam(heap[root], last.o) # NoNode
        /\ ElementCount(TupleShapes[Len(TupleShapes)])
               = paddedLength(heap[root])
                 + (IF HasSpread(TupleShapes[Len(TupleShapes)]) THEN 1 ELSE 0)

\* a tuple with a spread param was rendered as three or more shapes
C6_SeveralShapesWithSpread ==
    /\ TupleRendered
    /\ Len(TupleShapes) >= 3
    /\ HasSpread(TupleShapes[Len(TupleShapes)])

----------------------------------------------------------------------------
(* C7 *)

\* the root is the Tuple with minItems 1, maxItems 3, params [String] and
\* no spread param, and the last call rendered it, not from the cache
TupleOneToThreeRendered ==
    /\ TupleRendered
    /\ ~last.hit
    /\ heap[root].minItems = 1
    /\ heap[root].maxItems = 3
    /\ heap[root].spreadParam = NoNode
    /\ Len(heap[root].params) = 1
    /\ heap[heap[root].params[1]].type = "STRING"

\* 'unknown', or 'any', per the unknownAny option of the call
Placeholder ==
    IF last.o.unknownAny THEN "unknown" ELSE "any"

----------------------------------------------------------------------------
(* C8 *)

\* C8: the text of generate is the prefix, the banner, the named types, the
\* named interfaces and the enums, in this order, with a blank line between
\* every two sections that follow each other (the prefix and the banner
\* too), and a newline at the end.
C8_BlankLineBetweenSections ==
    (last.op = "generate" /\ ~last.err) =>
        last.text
            = join(<<prefix>> \o filterBoolean(last.secs), "\n\n") \o "\n"

----------------------------------------------------------------------------
(* C9 *)

\* C9: generateType returns the text that rendering the node's payload as
\* it is now, under the options of the call and with an empty cache, gives.
C9_NoStaleText ==
    (last.op = "render" /\ ~last.err) =>
        last.text = generateType(Thread(heap, <<>>), root, last.o, 0).v

----------------------------------------------------------------------------
(* C10 *)

\* the elements of a sequence
Range(f) ==
    {f[i] : i \in DOMAIN f}

\* the objects the walks of generate go to from object id
WalkChildren(id) ==
    CASE heap[id].type = "ARRAY" -> {heap[id].params[1]}
      [] heap[id].type \in {"UNION", "INTERSECTION"} -> Range(heap[id].params)
      [] heap[id].type = "TUPLE" ->
            Range(heap[id].params) \cup ({heap[id].spreadParam} \ {NoNode})
      [] heap[id].type = "INTERFACE" ->
            {heap[p].params[1] : p \in Range(heap[id].params)}
            \cup Range(heap[id].superTypes)
      [] OTHER -> {}

RECURSIVE WalkClosure(_)
WalkClosure(ids) ==
    IF UNION {WalkChildren(id) : id \in ids} \subseteq ids THEN ids
    ELSE WalkClosure(ids \cup UNION {WalkChildren(id) : id \in ids})

\* the objects the three walks reach
Reached ==
    WalkClosure({root})

\* the declarations of the last generate under the name nm
DeclarationsOf(nm) ==
    {k \in 1..Len(last.decls) : last.decls[k].name = nm}

\* the last call was a generate with declareExternallyReferenced that
\* returned, on a tree in which no two objects have the same standalone name
GeneratedAll ==
    /\ last.op = "generate"
    /\ ~last.err
    /\ last.o.declareExternallyReferenced
    /\ \A x, y \in Reached :
           (heap[x].standaloneName # NoName
            /\ heap[x].standaloneName = heap[y].standaloneName) => x = y

\* C10: with declareExternallyReferenced, one generate run declares every
\* standalone name of an object the walks reach exactly once; no name and no
\* object is declared twice, by one walk or by two, and the text holds as
\* many declarations as were made.
C10_OneDeclarationPerName ==
    GeneratedAll =>
        /\ \A x \in Reached :
               heap[x].standaloneName # NoName
                   => Cardinality(DeclarationsOf(heap[x].standaloneName)) = 1
        /\ \A i, j \in 1..Len(last.decls) :
               i # j => /\ last.decls[i].name # last.decls[j].name
                        /\ last.decls[i].node # last.decls[j].node
        /\ Occurrences(last.text, "export ") = Len(last.decls)

\* a named object that is the param of the root twice, or lies on a cycle
\* through the root, was declared, and so was the root
C10_SharedOrCyclicDeclared ==
    /\ GeneratedAll
    /\ Len(last.decls) >= 2
    /\ \E x \in Reached \ {root} :
           /\ heap[x].standaloneName # NoName
           /\ \/ root \in WalkClosure({x})
              \/ Cardinality({i \in 1..Len(heap[root].params) :
                                 heap[root].params[i] = x}) >= 2
           /\ Cardinality(DeclarationsOf(heap[x].standaloneName)) = 1

----------------------------------------------------------------------------
(* C11 *)

\* the onDereference calls made with the schema object n
EventsOf(n) ==
    {i \in 1..Len(events) : events[i].schema = n}

\* the last onDereference call made with the schema object n
LastEventOf(n) ==
    CHOOSE i \in EventsOf(n) : \A j \in EventsOf(n) : j <= i

\* C11 (as the code has it): after dereference returns, the origin of a
\* schema object is the pointer of the last onDereference call made with
\* it, and an object no call was made with has no origin.
C11_LastPointerRecorded ==
    returned =>
        \A n \in Schemas :
            IF EventsOf(n) = {} THEN n \notin DOMAIN dereferencedPaths
            ELSE /\ n \in DOMAIN dereferencedPaths
                 /\ dereferencedPaths[n] = events[LastEventOf(n)].ref

\* dereference returned after two pointers with different texts were
\* expanded to one schema object
C11_TwoPointersOneNode ==
    /\ returned
    /\ \E i, j \in 1..Len(events) :
           /\ i < j
           /\ events[i].schema = events[j].schema
           /\ events[i].ref # events[j].ref

\* C11 (as the specification has it): after dereference returns, the
\* origin of a schema object is the pointer of every onDereference call
\* made with it, however many calls with the same or another pointer were
\* made with that object; an object no call was made with has no origin.
C11_EveryPointerRecorded ==
    returned =>
        /\ \A i \in 1..Len(events) :
               /\ events[i].schema \in DOMAIN dereferencedPaths
               /\ dereferencedPaths[events[i].schema] = events[i].ref
        /\ \A n \in Schemas :
               EventsOf(n) = {} => n \notin DOMAIN dereferencedPaths

----------------------------------------------------------------------------
(* C12 *)

\* C12: without declareExternallyReferenced, every declaration of the
\* named-type walk and of the named-interface walk is for an object that
\* has the standalone name of the root.
C12_OnlyRootNameDeclared ==
    (last.op = "generate" /\ ~last.err
     /\ ~last.o.declareExternallyReferenced) =>
        \A k \in 1..Len(last.decls) :
            last.decls[k].walk \in {"type", "interface"}
                => last.decls[k].name = heap[root].standaloneName

----------------------------------------------------------------------------
(* C13 *)

\* the first call on the heap rendered the root, an INTERFACE, and returned
InterfaceRendered ==
    /\ last.op = "render"
    /\ ~last.err
    /\ runs = 1
    /\ heap[root].type = "INTERFACE"

\* the members of the root that are rendered
RootMembers ==
    renderedParams(heap, heap[root])

\* the element e of an array, unwrapped one level when it is a set with one
\* param or an interface with nothing but an index signature
Unwrapped(e) ==
    IF e.type \in {"UNION", "INTERSECTION"} /\ Len(e.params) = 1
    THEN heap[e.params[1]]
    ELSE IF e.type = "INTERFACE" /\ e.standaloneName = NoName
            /\ Len(e.params) = 1 /\ heap[e.params[1]].keyName = INDEX_KEY
    THEN heap[heap[e.params[1]].params[1]]
    ELSE e

\* the wrapper of an element by its class; "" when it has no class
Wrapper(e) ==
    IF e.standaloneName # NoName THEN e.standaloneName
    ELSE IF e.type \in {"STRING", "ENUM", "LITERAL", "NUMBER", "UNKNOWN"}
    THEN "AnnotatedString"
    ELSE IF e.type = "BOOLEAN" THEN "AnnotatedBoolean"
    ELSE ""

\* how the sequence accessor of key with the wrapper w begins
SequenceAccessor(key, w) ==
    "get " \o key \o "() {\n return getMapEntrySequence(this.node, '" \o key
    \o "', this.uri, " \o w

\* C13: every rendered member of an interface whose ast is an ARRAY and
\* whose key is not '[k: string]' is in the text as a getMapEntrySequence
\* accessor, with the wrapper of the class of its (unwrapped) element.
C13_ArrayMemberIsSequence ==
    InterfaceRendered =>
        \A i \in 1..Len(RootMembers) :
            (/\ heap[heap[RootMembers[i]].params[1]].type = "ARRAY"
             /\ heap[RootMembers[i]].keyName # INDEX_KEY)
            => Occurrences(
                   last.text,
                   SequenceAccessor(
                       heap[RootMembers[i]].keyName,
                       Wrapper(Unwrapped(
                           heap[heap[heap[RootMembers[i]].params[1]]
                                    .params[1]])))) >= 1

----------------------------------------------------------------------------
(* C14 *)

\* the text w is in s at position p
StartsAt(s, p, w) ==
    /\ p + Len(w) - 1 <= Len(s)
    /\ SubSeq(s, p, p + Len(w) - 1) = w

\* where in the rendered text an entry for key begins: on a new line, as
\* an accessor 'get key()' or as a field 'key: ' / 'key?: '
EntryPositions(key) ==
    {p \in 1..Len(last.text) :
        \/ StartsAt(last.text, p, "\nget " \o key \o "()")
        \/ StartsAt(last.text, p, "\n" \o key \o ": ")
        \/ StartsAt(last.text, p, "\n" \o key \o "?: ")}

\* the first of them
FirstEntry(key) ==
    CHOOSE p \in EntryPositions(key) : \A q \in EntryPositions(key) : p <= q

\* C14: the block rendered for an interface has an entry, an accessor or a
\* plain field, for every member that is neither a pattern property nor an
\* unreachable definition (a '[k: string]' member of an interface with
\* other keys too), and the entries are in the order of the members.
C14_EveryMemberHasEntry ==
    InterfaceRendered =>
        /\ \A i \in 1..Len(RootMembers) :
               EntryPositions(heap[RootMembers[i]].keyName) # {}
        /\ \A i, j \in 1..Len(RootMembers) :
               (/\ i < j
                /\ heap[RootMembers[i]].keyName # heap[RootMembers[j]].keyName
                /\ EntryPositions(heap[RootMembers[i]].keyName) # {}
                /\ EntryPositions(heap[RootMembers[j]].keyName) # {})
               => FirstEntry(heap[RootMembers[i]].keyName)
                      < FirstEntry(heap[RootMembers[j]].keyName)

----------------------------------------------------------------------------
(* C15 *)

\* the objects at the array-element, tuple-param, set-param and
\* interface-member positions of object id
ParamPositions(id) ==
    CASE heap[id].type \in {"ARRAY", "TUPLE", "UNION", "INTERSECTION"} ->
            Range(heap[id].params)
      [] heap[id].type = "INTERFACE" ->
            {heap[p].params[1] : p \in Range(heap[id].params)}
      [] OTHER -> {}

\* C15: after optimize has returned, no object of the result has a LITERAL
\* as its array element, tuple param, set param or interface member, also
\* when one LITERAL object was at several of these positions.
C15_NoLiteralLeft ==
    OptimizeReturned =>
        \A x \in Reached : \A c \in ParamPositions(x) :
            heap[c].type # "LITERAL"

====
